---- MODULE Spec2Model ----
(***************************************************************************)
(* Voxel terrain generation and mesh building of ROVER-engine:             *)
(* src/render/terrain/{block,noise,chunk}.rs.                              *)
(*                                                                         *)
(* Numbers.  Lengths are counted in units of HALF_BLOCK_SIZE (0.25), so    *)
(* every vertex coordinate of the source, (2*x +- 1) * 0.25, is the        *)
(* integer 2*x +- 1 here; these values are exact in f32.  A colour         *)
(* channel is counted in units of 1 / (CHUNK_HEIGHT*CHUNK_WIDTH*36*8), so  *)
(* the source's idx_offset / (CHUNK_HEIGHT*CHUNK_WIDTH*36*8) is the        *)
(* integer idx_offset.  Indices are u16: the cast `as u16` is % 2^16 and   *)
(* the u16 addition panics (overflow checks on) or wraps (checks off).     *)
(*                                                                         *)
(* Extents.  The source fixes CHUNK_WIDTH = 16 and CHUNK_HEIGHT = 32.  The *)
(* model runs the same code at the extents below, the smallest at which a  *)
(* cell has all six neighbours inside the grid.                            *)
(***************************************************************************)
EXTENDS Integers, Sequences, FiniteSets, TLC

VARIABLES
    pc,               \* position of the run: "start", "generated", "meshed", "panicked", "running", "aborted", "cube", "cube_done"
    overflow_checks,  \* build profile: TRUE when integer overflow panics (debug), FALSE when it wraps (release)
    noise,            \* the noise library: noise[seed][<<x, z>>] is the numerator of OpenSimplex(seed).get([x/16, z/16])
    noise_gen,        \* the NoiseGenerator built by Chunk::new
    blocks,           \* Chunk.blocks, read as blocks[x][y][z]
    vertices,         \* the vertex sequence returned by create_mesh
    indices,          \* the index sequence returned by create_mesh
    cube_in,          \* the arguments of a single create_cube call
    cube_out,         \* what that call returned
    width,            \* Chunk.width (0 while there is no Chunk)
    height,           \* Chunk.height (0 while there is no Chunk)
    calls,            \* how many times the program has called Chunk::new and create_mesh
    state,            \* the fields of State that its handlers read and write (<<>> while there is no State)
    last              \* the last call of a State method: its event and what it did (NoCall before the first)

vars == <<pc, overflow_checks, noise, noise_gen, blocks, vertices, indices,
          cube_in, cube_out, width, height, calls, state, last>>

(***************************************************************************)
(* Bounds of the model                                                     *)
(***************************************************************************)
\* 16 in the source (chunk.rs:5)
CHUNK_WIDTH == 3
\* 32 in the source (chunk.rs:6)
CHUNK_HEIGHT == 3
\* noise values are the fractions k / NoiseDen with -NoiseDen <= k <= NoiseDen
NoiseDen == 2
\* create_cube is tried with the vertex counts of the first MaxOver + 1 and the last MaxOver + 1 blocks of a chunk
MaxOver == 1
\* create_mesh is called up to MaxBuilds times on the same chunk
MaxBuilds == 2

(***************************************************************************)
(* block.rs                                                                *)
(***************************************************************************)
HALF_BLOCK_SIZE == 1

AIR == "AIR"
STONE == "STONE"
BlockType == {AIR, STONE}

Block_new == [is_active |-> FALSE, block_type |-> STONE]

Block_from(b_type) == [is_active |-> FALSE, block_type |-> b_type]

(***************************************************************************)
(* The grid                                                                *)
(***************************************************************************)
XRange == 0 .. (CHUNK_WIDTH - 1)
YRange == 0 .. (CHUNK_HEIGHT - 1)
ZRange == 0 .. (CHUNK_WIDTH - 1)

\* [[[Block::new(); CHUNK_WIDTH]; CHUNK_HEIGHT]; CHUNK_WIDTH]
DefaultBlocks == [x \in XRange |-> [y \in YRange |-> [z \in ZRange |-> Block_new]]]

(***************************************************************************)
(* chunk.rs: faces and indices                                             *)
(***************************************************************************)
FRONT == 0
BACK == 1
TOP == 2
BOTTOM == 3
LEFT == 4
RIGHT == 5

\* BASE_INDICES with the triangles of the Top face turned round
BASE_INDICES_TopReversed ==
    << <<0, 1, 3, 3, 1, 2>>,
       <<4, 5, 7, 7, 5, 6>>,
       <<3, 6, 2, 6, 7, 2>>,
       <<5, 4, 0, 0, 4, 1>>,
       <<5, 0, 6, 6, 0, 3>>,
       <<1, 4, 2, 2, 4, 7>> >>

\* BASE_INDICES[face as usize][i] is BASE_INDICES[face + 1][i + 1] here
BASE_INDICES ==
    << <<0, 1, 3, 3, 1, 2>>,
       <<4, 5, 7, 7, 5, 6>>,
       <<3, 2, 6, 6, 2, 7>>,
       <<5, 4, 0, 0, 4, 1>>,
       <<5, 0, 6, 6, 0, 3>>,
       <<1, 4, 2, 2, 4, 7>> >>

U16_MODULUS == 65536

\* the cast narrowed to u8
AsU16_AsU8(n) == n % 256

\* `idx_offset as u16`
AsU16(n) == n % U16_MODULUS

\* whether BASE_INDICES[face][i] + idx_offset as u16 overflows u16 for some i
FaceOverflows(face, idx_offset) ==
    \E i \in 1..6 : BASE_INDICES[face + 1][i] + AsU16(idx_offset) >= U16_MODULUS

\* add_face_indices leaving the offset out
add_face_indices_Local(face, idx_offset) ==
    [i \in 1..6 |-> BASE_INDICES[face + 1][i]]

\* add_face_indices: BASE_INDICES[face][i] + idx_offset as u16, the u16
\* addition wrapping (create_cube turns an overflow into a panic when the
\* build checks overflow)
add_face_indices(face, idx_offset) ==
    [i \in 1..6 |-> (BASE_INDICES[face + 1][i] + AsU16(idx_offset)) % U16_MODULUS]

(***************************************************************************)
(* chunk.rs: create_cube                                                   *)
(***************************************************************************)
\* `color` of create_cube
CubeColor(idx_offset) == idx_offset

\* v_cube of create_cube
CubeVertices(idx_offset, x, y, z) ==
    LET color == CubeColor(idx_offset)
        px == x * 2 * HALF_BLOCK_SIZE
        py == y * 2 * HALF_BLOCK_SIZE
        pz == z * 2 * HALF_BLOCK_SIZE
        h == HALF_BLOCK_SIZE
    IN  << [position |-> <<px - h, py - h, pz - h>>, color |-> <<color, 0, 0>>],
           [position |-> <<px + h, py - h, pz - h>>, color |-> <<color, 0, 0>>],
           [position |-> <<px + h, py + h, pz - h>>, color |-> <<color, 0, 0>>],
           [position |-> <<px - h, py + h, pz - h>>, color |-> <<color, 0, 0>>],
           [position |-> <<px + h, py - h, pz + h>>, color |-> <<0, 0, color>>],
           [position |-> <<px - h, py - h, pz + h>>, color |-> <<0, 0, color>>],
           [position |-> <<px - h, py + h, pz + h>>, color |-> <<0, 0, color>>],
           [position |-> <<px + h, py + h, pz + h>>, color |-> <<0, 0, color>> ] >>

\* create_cube testing every face against the neighbour at z + 1 or z - 1
CulledFaces_AlongZ(grid, x, y, z) ==
    (IF z = CHUNK_WIDTH - 1 \/ (z < CHUNK_WIDTH - 1 /\ grid[x][y][z + 1].block_type = AIR)
        THEN <<BACK, RIGHT, TOP>> ELSE <<>>)
    \o (IF z = 0 \/ (z > 0 /\ grid[x][y][z - 1].block_type = AIR)
        THEN <<FRONT, LEFT, BOTTOM>> ELSE <<>>)

\* create_cube emitting all six faces
CulledFaces_NoCulling(grid, x, y, z) ==
    <<BACK, FRONT, RIGHT, LEFT, TOP, BOTTOM>>

\* create_cube taking a neighbour whose is_active is false for Air
CulledFaces_InactiveIsAir(grid, x, y, z) ==
    (IF z = CHUNK_WIDTH - 1 \/ (z < CHUNK_WIDTH - 1 /\ (grid[x][y][z + 1].block_type = AIR \/ ~grid[x][y][z + 1].is_active))
        THEN <<BACK>> ELSE <<>>)
    \o (IF z = 0 \/ (z > 0 /\ (grid[x][y][z - 1].block_type = AIR \/ ~grid[x][y][z - 1].is_active))
        THEN <<FRONT>> ELSE <<>>)
    \o (IF x = CHUNK_WIDTH - 1 \/ (x < CHUNK_WIDTH - 1 /\ (grid[x + 1][y][z].block_type = AIR \/ ~grid[x + 1][y][z].is_active))
        THEN <<RIGHT>> ELSE <<>>)
    \o (IF x = 0 \/ (x > 0 /\ (grid[x - 1][y][z].block_type = AIR \/ ~grid[x - 1][y][z].is_active))
        THEN <<LEFT>> ELSE <<>>)
    \o (IF y = CHUNK_HEIGHT - 1 \/ (y < CHUNK_HEIGHT - 1 /\ (grid[x][y + 1][z].block_type = AIR \/ ~grid[x][y + 1][z].is_active))
        THEN <<TOP>> ELSE <<>>)
    \o (IF y = 0 \/ (y > 0 /\ (grid[x][y - 1][z].block_type = AIR \/ ~grid[x][y - 1][z].is_active))
        THEN <<BOTTOM>> ELSE <<>>)

\* create_cube without the `y == 0` case of its Bottom test
CulledFaces_NoFloorFace(grid, x, y, z) ==
    (IF z = CHUNK_WIDTH - 1 \/ (z < CHUNK_WIDTH - 1 /\ grid[x][y][z + 1].block_type = AIR)
        THEN <<BACK>> ELSE <<>>)
    \o (IF z = 0 \/ (z > 0 /\ grid[x][y][z - 1].block_type = AIR)
        THEN <<FRONT>> ELSE <<>>)
    \o (IF x = CHUNK_WIDTH - 1 \/ (x < CHUNK_WIDTH - 1 /\ grid[x + 1][y][z].block_type = AIR)
        THEN <<RIGHT>> ELSE <<>>)
    \o (IF x = 0 \/ (x > 0 /\ grid[x - 1][y][z].block_type = AIR)
        THEN <<LEFT>> ELSE <<>>)
    \o (IF y = CHUNK_HEIGHT - 1 \/ (y < CHUNK_HEIGHT - 1 /\ grid[x][y + 1][z].block_type = AIR)
        THEN <<TOP>> ELSE <<>>)
    \o (IF y > 0 /\ grid[x][y - 1][z].block_type = AIR
        THEN <<BOTTOM>> ELSE <<>>)

\* the faces create_cube emits for the cell, in the order of its six tests
CulledFaces(grid, x, y, z) ==
    (IF z = CHUNK_WIDTH - 1 \/ (z < CHUNK_WIDTH - 1 /\ grid[x][y][z + 1].block_type = AIR)
        THEN <<BACK>> ELSE <<>>)
    \o (IF z = 0 \/ (z > 0 /\ grid[x][y][z - 1].block_type = AIR)
        THEN <<FRONT>> ELSE <<>>)
    \o (IF x = CHUNK_WIDTH - 1 \/ (x < CHUNK_WIDTH - 1 /\ grid[x + 1][y][z].block_type = AIR)
        THEN <<RIGHT>> ELSE <<>>)
    \o (IF x = 0 \/ (x > 0 /\ grid[x - 1][y][z].block_type = AIR)
        THEN <<LEFT>> ELSE <<>>)
    \o (IF y = CHUNK_HEIGHT - 1 \/ (y < CHUNK_HEIGHT - 1 /\ grid[x][y + 1][z].block_type = AIR)
        THEN <<TOP>> ELSE <<>>)
    \o (IF y = 0 \/ (y > 0 /\ grid[x][y - 1][z].block_type = AIR)
        THEN <<BOTTOM>> ELSE <<>>)

\* create_cube reading all six neighbours, whatever the coordinates
CubeReads_Unguarded(x, y, z) ==
    {<<x, y, z + 1>>, <<x, y, z - 1>>, <<x + 1, y, z>>, <<x - 1, y, z>>,
     <<x, y + 1, z>>, <<x, y - 1, z>>}

\* the cells of self.blocks that the six tests of create_cube index: `a || (b && read)`
\* evaluates the read only when a is false and b is true
CubeReads(x, y, z) ==
    (IF ~(z = CHUNK_WIDTH - 1) /\ z < CHUNK_WIDTH - 1 THEN {<<x, y, z + 1>>} ELSE {})
    \cup (IF ~(z = 0) /\ z > 0 THEN {<<x, y, z - 1>>} ELSE {})
    \cup (IF ~(x = CHUNK_WIDTH - 1) /\ x < CHUNK_WIDTH - 1 THEN {<<x + 1, y, z>>} ELSE {})
    \cup (IF ~(x = 0) /\ x > 0 THEN {<<x - 1, y, z>>} ELSE {})
    \cup (IF ~(y = CHUNK_HEIGHT - 1) /\ y < CHUNK_HEIGHT - 1 THEN {<<x, y + 1, z>>} ELSE {})
    \cup (IF ~(y = 0) /\ y > 0 THEN {<<x, y - 1, z>>} ELSE {})

RECURSIVE FaceIndices(_, _)
\* i_cube: the indices of the faces fs, appended in order
FaceIndices(fs, idx_offset) ==
    IF fs = <<>> THEN <<>>
    ELSE add_face_indices(Head(fs), idx_offset) \o FaceIndices(Tail(fs), idx_offset)

\* create_cube without its early return for a cell that shows no face
CubeResult_NoExtremeCulling(v_cube, i_cube) ==
    [panicked |-> FALSE, v_cube |-> v_cube, i_cube |-> i_cube]

\* the end of create_cube: the early return for a cell that shows no face, or (v_cube, i_cube)
CubeResult(v_cube, i_cube) ==
    IF Len(i_cube) = 0
    THEN [panicked |-> FALSE, v_cube |-> <<>>, i_cube |-> <<>>]
    ELSE [panicked |-> FALSE, v_cube |-> v_cube, i_cube |-> i_cube]

\* create_cube for the faces fs that pass its six tests
CubeOfFaces(fs, idx_offset, x, y, z) ==
    IF overflow_checks /\ \E k \in 1..Len(fs) : FaceOverflows(fs[k], idx_offset)
    THEN [panicked |-> TRUE, v_cube |-> <<>>, i_cube |-> <<>>]
    ELSE CubeResult(CubeVertices(idx_offset, x, y, z), FaceIndices(fs, idx_offset))

\* create_cube: a panic (overflow checks on, an index addition overflows), or (v_cube, i_cube)
create_cube(grid, idx_offset, x, y, z) ==
    CubeOfFaces(CulledFaces(grid, x, y, z), idx_offset, x, y, z)

(***************************************************************************)
(* chunk.rs: create_mesh                                                   *)
(***************************************************************************)
NumCells == CHUNK_HEIGHT * CHUNK_WIDTH * CHUNK_WIDTH

\* the cells traversed x outermost: `for x { for y { for z {..} } }`
LoopCell_XOuter(k) ==
    << k \div (CHUNK_HEIGHT * CHUNK_WIDTH), (k \div CHUNK_WIDTH) % CHUNK_HEIGHT, k % CHUNK_WIDTH >>

\* the k-th cell (k from 0) of `for y { for x { for z {..} } }`, as <<x, y, z>>
LoopCell(k) ==
    << (k \div CHUNK_WIDTH) % CHUNK_WIDTH, k \div (CHUNK_WIDTH * CHUNK_WIDTH), k % CHUNK_WIDTH >>

\* the offset create_mesh passes to create_cube
MeshOffset_IndexCount(vs, is) == Len(is)

MeshOffset(vs, is) == Len(vs)

\* both appends of the loop body for the cube create_cube returned
MeshAppend(m, cube) ==
    IF cube.panicked
    THEN [panicked |-> TRUE, vertices |-> <<>>, indices |-> <<>>]
    ELSE [panicked |-> FALSE,
          vertices |-> m.vertices \o cube.v_cube,
          indices |-> m.indices \o cube.i_cube]

RECURSIVE MeshRow(_, _, _, _)
\* one pass of the innermost loop (`for z`): n cells from the k-th on, m the mesh so far
MeshRow(grid, k, n, m) ==
    IF n = 0 \/ m.panicked THEN m
    ELSE IF grid[LoopCell(k)[1]][LoopCell(k)[2]][LoopCell(k)[3]].block_type # AIR
         THEN MeshRow(grid, k + 1, n - 1,
                  MeshAppend(m, create_cube(grid, MeshOffset(m.vertices, m.indices),
                                            LoopCell(k)[1], LoopCell(k)[2], LoopCell(k)[3])))
         ELSE MeshRow(grid, k + 1, n - 1, m)

RECURSIVE MeshFrom(_, _, _, _)
RECURSIVE MeshNext(_, _, _)
\* the loop of create_mesh from its k-th cell on (k at the start of a row of z),
\* with the vertices and indices so far
MeshFrom(grid, k, vs, is) ==
    IF k = NumCells THEN [panicked |-> FALSE, vertices |-> vs, indices |-> is]
    ELSE MeshNext(grid, k,
             MeshRow(grid, k, CHUNK_WIDTH,
                     [panicked |-> FALSE, vertices |-> vs, indices |-> is]))

\* on to the next row, unless the row panicked
MeshNext(grid, k, m) ==
    IF m.panicked THEN m ELSE MeshFrom(grid, k + CHUNK_WIDTH, m.vertices, m.indices)

\* the cells self.blocks[x][y][z] that the loops of create_mesh read
MeshReads == {LoopCell(k) : k \in 0..(NumCells - 1)}

create_mesh(grid) == MeshFrom(grid, 0, <<>>, <<>>)

(***************************************************************************)
(* noise.rs, and what it uses of the noise crate                           *)
(***************************************************************************)
\* the seed of OpenSimplex::new(): the crate's DEFAULT_SEED
DEFAULT_SEED == 0

\* the seed Chunk::new passes to from_seed
CHUNK_SEED == 1337

Seeds == {DEFAULT_SEED, CHUNK_SEED}

\* OpenSimplex::new()
OpenSimplex_new == [seed |-> DEFAULT_SEED]

\* Seedable::set_seed(self, seed) -> Self: takes the generator by value and
\* returns a generator that carries `seed`; the argument is left as it was
set_seed(generator, seed) == [generator EXCEPT !.seed = seed]

\* from_seed keeping the generator that set_seed returns
from_seed_Seeded(seed) ==
    LET generator == OpenSimplex_new
    IN  [generator |-> set_seed(generator, seed)]

\* NoiseGenerator::from_seed: `generator` is an immutable binding, the value
\* of `generator.set_seed(seed);` is dropped
from_seed(seed) ==
    LET generator == OpenSimplex_new
        dropped == set_seed(generator, seed)
    IN  [generator |-> generator]

\* NoiseGenerator::get(x / 16.0, z / 16.0), as a numerator over NoiseDen
NoiseGenerator_get(gen, x, z) == noise[gen.generator.seed][<<x, z>>]

(***************************************************************************)
(* chunk.rs: Chunk::new                                                    *)
(***************************************************************************)
\* noise_value = noise_gen.get(..) * CHUNK_HEIGHT as f64, the fraction num / den
NoiseValue(gen, x, z) ==
    [num |-> NoiseGenerator_get(gen, x, z) * CHUNK_HEIGHT, den |-> NoiseDen]

\* `y as f64 > noise_value`
GreaterThan(y, v) == y * v.den > v.num

\* Chunk::new comparing with >= instead of >
TerrainBlockType_GreaterEqual(y, v) ==
    IF y * v.den >= v.num THEN AIR ELSE STONE

\* Chunk::new with the comparison turned round
TerrainBlockType_Less(y, v) ==
    IF y * v.den < v.num THEN AIR ELSE STONE

\* the block type Chunk::new assigns at height y of a column whose noise_value is v
TerrainBlockType(y, v) ==
    IF GreaterThan(y, v) THEN AIR ELSE STONE

\* the cells blocks[x][y][z] that the loops of Chunk::new write
NewWrites ==
    {<<x, y, z>> : x \in 0..(CHUNK_WIDTH - 1), z \in 0..(CHUNK_WIDTH - 1),
                   y \in 0..(CHUNK_HEIGHT - 1)}

\* the grid Chunk::new builds with the generator gen
GenerateBlocks(gen) ==
    [x \in XRange |-> [y \in YRange |-> [z \in ZRange |->
        [Block_new EXCEPT !.block_type = TerrainBlockType(y, NoiseValue(gen, x, z))]]]]

(***************************************************************************)
(* state.rs: events, and the record of a call                              *)
(***************************************************************************)
NoEvent == [type |-> "None", button |-> "None", key |-> "None", state |-> "None"]

\* WindowEvent: MouseInput of either button, pressed or released, and an event of another kind
WindowEvents ==
    {[NoEvent EXCEPT !.type = "MouseInput", !.button = b, !.state = st] :
        b \in {"Left", "Right"}, st \in {"Pressed", "Released"}}
    \cup {[NoEvent EXCEPT !.type = "CursorMoved"]}

\* DeviceEvent: Key with or without a virtual_keycode, MouseWheel, Button,
\* MouseMotion, and an event of another kind
DeviceEvents ==
    {[NoEvent EXCEPT !.type = "Key", !.key = k, !.state = st] :
        k \in {"Escape", "W", "None"}, st \in {"Pressed", "Released"}}
    \cup {[NoEvent EXCEPT !.type = "Button", !.button = b, !.state = st] :
        b \in {"1", "3"}, st \in {"Pressed", "Released"}}
    \cup {[NoEvent EXCEPT !.type = t] : t \in {"MouseWheel", "MouseMotion", "Added"}}

\* window sizes: window.inner_size() and the new_size of a resize
Sizes == {<<2, 1>>, <<1, 1>>}

\* no State method has been called
NoCall ==
    [call |-> "none", event |-> NoEvent, key_consumed |-> FALSE, returned |-> FALSE,
     process_mouse |-> FALSE, draw |-> <<>>]

\* `indices.len() as u32`: the cast keeps every value below 2^32, and
\* indices.len() is at most 36 * CHUNK_WIDTH * CHUNK_HEIGHT * CHUNK_WIDTH
\* (294912 at the source's extents); 2^32 is beyond the integers of TLC
AsU32(n) == n

(***************************************************************************)
(* Inputs                                                                  *)
(***************************************************************************)
Columns == XRange \X ZRange
Cells == XRange \X YRange \X ZRange

NoiseValues == (0 - NoiseDen) .. NoiseDen

FlatNoise(v) == [c \in Columns |-> v]

\* a level terrain, one column of it raised or lowered
NoiseTables ==
    {[FlatNoise(v) EXCEPT ![c] = u] : v \in NoiseValues, u \in NoiseValues, c \in Columns}

\* the noise function of seed 1337: level, at the lowest or the highest value
SeededTables == {FlatNoise(0 - NoiseDen), FlatNoise(NoiseDen)}

\* the noise functions of the two seeds
NoiseInputs ==
    {[s \in Seeds |-> IF s = DEFAULT_SEED THEN a ELSE b] : a \in NoiseTables, b \in SeededTables}

\* lo <= c <= hi in every coordinate
InBox(c, lo, hi) == \A a \in 1..3 : lo[a] <= c[a] /\ c[a] <= hi[a]

\* the grid that is `inside` in the box lo..hi and `outside` elsewhere
BoxGrid(lo, hi, inside, outside) ==
    [x \in XRange |-> [y \in YRange |-> [z \in ZRange |->
        Block_from(IF InBox(<<x, y, z>>, lo, hi) THEN inside ELSE outside)]]]

CheckerGrid(parity) ==
    [x \in XRange |-> [y \in YRange |-> [z \in ZRange |->
        Block_from(IF (x + y + z) % 2 = parity THEN STONE ELSE AIR)]]]

\* the boxes of the grid, each by its lowest and its highest cell
Boxes == {b \in Cells \X Cells : InBox(b[1], b[1], b[2])}

\* grid contents given to create_mesh: solid boxes, boxes carved out of a
\* solid grid, the two checkerboards, the empty grid
GridInputs ==
    {BoxGrid(b[1], b[2], STONE, AIR) : b \in Boxes}
    \cup {BoxGrid(b[1], b[2], AIR, STONE) : b \in Boxes}
    \cup {CheckerGrid(p) : p \in 0..1}

\* the grid with the block types of `grid` whose is_active flags are set on the cells of A only
WithActive(grid, A) ==
    [x \in XRange |-> [y \in YRange |-> [z \in ZRange |->
        [grid[x][y][z] EXCEPT !.is_active = (<<x, y, z>> \in A)]]]]

\* is_active flags: none set, all set, set on every other cell, set on the lowest layer
ActivePatterns ==
    {{}, Cells, {c \in Cells : (c[1] + c[2] + c[3]) % 2 = 0}, {c \in Cells : c[2] = 0}}

\* grid contents for repeated builds and for the is_active flags: the boxes
\* at the origin, solid or carved out, and the checkerboards, under every
\* flag pattern
FlaggedGridInputs ==
    {WithActive(g, A) :
        g \in {BoxGrid(<<0, 0, 0>>, hi, STONE, AIR) : hi \in Cells}
               \cup {BoxGrid(<<0, 0, 0>>, hi, AIR, STONE) : hi \in Cells}
               \cup {CheckerGrid(p) : p \in 0..1},
        A \in ActivePatterns}

\* the in-grid cells next to c
Adjacent(c) ==
    {n \in Cells : \E a \in 1..3 :
        /\ (n[a] = c[a] + 1 \/ n[a] = c[a] - 1)
        /\ \A b \in (1..3) \ {a} : n[b] = c[b]}

\* the grid whose solid cells are those of the set S
GridOf(S) ==
    [x \in XRange |-> [y \in YRange |-> [z \in ZRange |->
        Block_from(IF <<x, y, z>> \in S THEN STONE ELSE AIR)]]]

\* CHUNK_WIDTH and CHUNK_HEIGHT as the source declares them
SOURCE_CHUNK_WIDTH == 16
SOURCE_CHUNK_HEIGHT == 32

\* the cells of a chunk of the source
SourceNumCells == SOURCE_CHUNK_WIDTH * SOURCE_CHUNK_HEIGHT * SOURCE_CHUNK_WIDTH

\* vertex counts create_cube is called with: create_mesh passes
\* vertices.len(), 8 for each earlier cell that showed a face, so a multiple
\* of 8 up to 8 * (cells - 1) at the extents of the source; here the first
\* blocks of a mesh and the last ones
OffsetInputs ==
    {8 * k : k \in 0..MaxOver}
    \cup {8 * (SourceNumCells - 1) - 8 * k : k \in 0..MaxOver}

(***************************************************************************)
(* The program: Chunk::new, then create_mesh (State::new, state.rs:90-91)  *)
(***************************************************************************)
Init ==
    /\ pc = "start"
    /\ overflow_checks \in BOOLEAN
    /\ noise \in NoiseInputs
    /\ noise_gen = <<>>
    /\ blocks = DefaultBlocks
    /\ vertices = <<>>
    /\ indices = <<>>
    /\ cube_in = <<>>
    /\ cube_out = <<>>
    /\ width = 0
    /\ height = 0
    /\ calls = [new |-> 0, mesh |-> 0]
    /\ state = <<>>
    /\ last = NoCall

\* Chunk::new()
ChunkNew ==
    /\ pc = "start"
    /\ noise_gen' = from_seed(CHUNK_SEED)
    /\ blocks' = GenerateBlocks(noise_gen')
    /\ width' = CHUNK_WIDTH
    /\ height' = CHUNK_HEIGHT
    /\ calls' = [calls EXCEPT !.new = @ + 1]
    /\ pc' = "generated"
    /\ UNCHANGED <<overflow_checks, noise, vertices, indices, cube_in, cube_out,
                   state, last>>

\* chunk.create_mesh()
CreateMesh ==
    /\ pc = "generated"
    /\ \E mesh \in {create_mesh(blocks)} :
           IF mesh.panicked
           THEN pc' = "panicked" /\ UNCHANGED <<vertices, indices>>
           ELSE /\ pc' = "meshed"
                /\ vertices' = mesh.vertices
                /\ indices' = mesh.indices
    /\ calls' = [calls EXCEPT !.mesh = @ + 1]
    /\ UNCHANGED <<overflow_checks, noise, noise_gen, blocks, cube_in, cube_out,
                   width, height, state, last>>

Next == ChunkNew \/ CreateMesh

Spec == Init /\ [][Next]_vars

(***************************************************************************)
(* create_mesh on any grid content                                         *)
(***************************************************************************)
InitMesh ==
    /\ pc = "generated"
    /\ overflow_checks \in BOOLEAN
    /\ noise = [s \in Seeds |-> FlatNoise(0)]
    /\ noise_gen = from_seed(CHUNK_SEED)
    /\ blocks \in GridInputs
    /\ vertices = <<>>
    /\ indices = <<>>
    /\ cube_in = <<>>
    /\ cube_out = <<>>
    /\ width = CHUNK_WIDTH
    /\ height = CHUNK_HEIGHT
    /\ calls = [new |-> 1, mesh |-> 0]
    /\ state = <<>>
    /\ last = NoCall

NextMesh == CreateMesh

SpecMesh == InitMesh /\ [][NextMesh]_vars

(***************************************************************************)
(* create_cube on any cell, neighbourhood and vertex count                 *)
(***************************************************************************)
InitCube ==
    /\ pc = "cube"
    /\ overflow_checks \in BOOLEAN
    /\ noise = [s \in Seeds |-> FlatNoise(0)]
    /\ noise_gen = from_seed(CHUNK_SEED)
    /\ \E c \in Cells, off \in OffsetInputs :
        \E S \in SUBSET Adjacent(c) :
            /\ blocks = GridOf(S \cup {c})
            /\ cube_in = [idx_offset |-> off, x |-> c[1], y |-> c[2], z |-> c[3]]
    /\ vertices = <<>>
    /\ indices = <<>>
    /\ cube_out = <<>>
    /\ width = CHUNK_WIDTH
    /\ height = CHUNK_HEIGHT
    /\ calls = [new |-> 1, mesh |-> 0]
    /\ state = <<>>
    /\ last = NoCall

\* self.create_cube(idx_offset, x, y, z)
CreateCube ==
    /\ pc = "cube"
    /\ cube_out' = create_cube(blocks, cube_in.idx_offset, cube_in.x, cube_in.y, cube_in.z)
    /\ pc' = "cube_done"
    /\ UNCHANGED <<overflow_checks, noise, noise_gen, blocks, vertices, indices, cube_in,
                   width, height, calls, state, last>>

NextCube == CreateCube

SpecCube == InitCube /\ [][NextCube]_vars

(***************************************************************************)
(* create_mesh called repeatedly on a chunk whose blocks carry any flags    *)
(***************************************************************************)
InitBuilds ==
    /\ pc = "generated"
    /\ overflow_checks \in BOOLEAN
    /\ noise = [s \in Seeds |-> FlatNoise(0)]
    /\ noise_gen = from_seed(CHUNK_SEED)
    /\ blocks \in FlaggedGridInputs
    /\ vertices = <<>>
    /\ indices = <<>>
    /\ cube_in = <<>>
    /\ cube_out = <<>>
    /\ width = CHUNK_WIDTH
    /\ height = CHUNK_HEIGHT
    /\ calls = [new |-> 1, mesh |-> 0]
    /\ state = <<>>
    /\ last = NoCall

\* a further build that sets is_active on the cells it meshes
Remesh_Activating ==
    /\ pc = "meshed"
    /\ calls.mesh < MaxBuilds
    /\ \E mesh \in {create_mesh(blocks)} :
           /\ ~mesh.panicked
           /\ vertices' = mesh.vertices
           /\ indices' = mesh.indices
    /\ blocks' = WithActive(blocks, {c \in Cells : blocks[c[1]][c[2]][c[3]].block_type # AIR})
    /\ calls' = [calls EXCEPT !.mesh = @ + 1]
    /\ UNCHANGED <<pc, overflow_checks, noise, noise_gen, cube_in, cube_out,
                   width, height, state, last>>

\* chunk.create_mesh() once more, on the chunk that has been meshed
Remesh ==
    /\ pc = "meshed"
    /\ calls.mesh < MaxBuilds
    /\ \E mesh \in {create_mesh(blocks)} :
           IF mesh.panicked
           THEN pc' = "panicked" /\ UNCHANGED <<vertices, indices>>
           ELSE /\ pc' = "meshed"
                /\ vertices' = mesh.vertices
                /\ indices' = mesh.indices
    /\ calls' = [calls EXCEPT !.mesh = @ + 1]
    /\ UNCHANGED <<overflow_checks, noise, noise_gen, blocks, cube_in, cube_out,
                   width, height, state, last>>

NextBuilds == CreateMesh \/ Remesh

SpecBuilds == InitBuilds /\ [][NextBuilds]_vars

(***************************************************************************)
(* state.rs: State::new and the methods the event loop calls               *)
(***************************************************************************)
\* what the methods of State leave alone: the chunk, its mesh and the harness
chunk_vars == <<overflow_checks, noise, noise_gen, blocks, vertices, indices,
                cube_in, cube_out, width, height, calls>>

\* num_index taken from the vertex count
NumIndex_OfVertices(vs, is) == AsU32(Len(vs))

\* `let num_index = indices.len() as u32`
NumIndex(vs, is) == AsU32(Len(is))

\* window_input capturing the mouse on either button
window_input_AnyButton(st, event, grab_ok) ==
    IF event.type = "MouseInput" /\ ~st.mouse_capture
    THEN IF grab_ok
         THEN [state |-> [st EXCEPT !.mouse_capture = TRUE], returned |-> TRUE, panicked |-> FALSE]
         ELSE [state |-> st, returned |-> FALSE, panicked |-> TRUE]
    ELSE [state |-> st, returned |-> FALSE, panicked |-> FALSE]

\* State::window_input; grab_ok is whether window.set_cursor_grab(true)
\* returns Ok, its unwrap() panicking otherwise
window_input(st, event, grab_ok) ==
    IF event.type = "MouseInput" /\ event.button = "Left"
    THEN IF ~st.mouse_capture
         THEN IF grab_ok
              THEN [state |-> [st EXCEPT !.mouse_capture = TRUE], returned |-> TRUE, panicked |-> FALSE]
              ELSE [state |-> st, returned |-> FALSE, panicked |-> TRUE]
         ELSE [state |-> st, returned |-> FALSE, panicked |-> FALSE]
    ELSE [state |-> st, returned |-> FALSE, panicked |-> FALSE]

\* the result of device_input when it only returns a value
DeviceReturn(st, value) ==
    [state |-> st, returned |-> value, key_consumed |-> FALSE, process_mouse |-> FALSE,
     panicked |-> FALSE]

\* device_input forwarding every mouse motion to the camera controller
device_input_AlwaysForward(st, event, consumed, grab_ok) ==
    IF event.type = "MouseMotion"
    THEN [DeviceReturn(st, TRUE) EXCEPT !.process_mouse = TRUE]
    ELSE DeviceReturn(st, event.type = "MouseWheel" \/ (event.type = "Button" /\ event.button = "1"))

\* State::device_input; consumed is what camera_controller.process_keyboard
\* returns, grab_ok whether window.set_cursor_grab(false) returns Ok
device_input(st, event, consumed, grab_ok) ==
    IF event.type = "Key" /\ event.key # "None"
    THEN IF ~consumed
         THEN IF event.key = "Escape" /\ st.mouse_capture
              THEN [state |-> [st EXCEPT !.mouse_capture = FALSE], returned |-> grab_ok,
                    key_consumed |-> consumed, process_mouse |-> FALSE, panicked |-> ~grab_ok]
              ELSE [DeviceReturn(st, FALSE) EXCEPT !.key_consumed = consumed]
         ELSE [DeviceReturn(st, FALSE) EXCEPT !.key_consumed = consumed]
    ELSE IF event.type = "MouseWheel" THEN DeviceReturn(st, TRUE)
    ELSE IF event.type = "Button" /\ event.button = "1" THEN DeviceReturn(st, TRUE)
    ELSE IF event.type = "MouseMotion"
         THEN [DeviceReturn(st, TRUE) EXCEPT !.process_mouse = st.mouse_capture]
    ELSE DeviceReturn(st, FALSE)

\* the program starts: a level terrain at any noise value
InitState ==
    /\ pc = "start"
    /\ overflow_checks \in BOOLEAN
    /\ noise \in {[s \in Seeds |-> FlatNoise(v)] : v \in NoiseValues}
    /\ noise_gen = <<>>
    /\ blocks = DefaultBlocks
    /\ vertices = <<>>
    /\ indices = <<>>
    /\ cube_in = <<>>
    /\ cube_out = <<>>
    /\ width = 0
    /\ height = 0
    /\ calls = [new |-> 0, mesh |-> 0]
    /\ state = <<>>
    /\ last = NoCall

\* the rest of State::new, after chunk.create_mesh(): the buffers and the State
StateNew ==
    /\ pc = "meshed"
    /\ \E size \in Sizes :
          state' = [size |-> size,
                    vertex_buffer |-> vertices,
                    index_buffer |-> indices,
                    mouse_capture |-> FALSE,
                    num_index |-> NumIndex(vertices, indices)]
    /\ pc' = "running"
    /\ last' = NoCall
    /\ UNCHANGED chunk_vars

\* state.resize(new_size)
Resize ==
    /\ pc = "running"
    /\ \E new_size \in Sizes : state' = [state EXCEPT !.size = new_size]
    /\ last' = [NoCall EXCEPT !.call = "resize"]
    /\ UNCHANGED <<pc, chunk_vars>>

\* state.window_input(window, event)
WindowInput ==
    /\ pc = "running"
    /\ \E event \in WindowEvents, grab_ok \in BOOLEAN :
          \E res \in {window_input(state, event, grab_ok)} :
              /\ state' = res.state
              /\ last' = [NoCall EXCEPT !.call = "window_input", !.event = event,
                                        !.returned = res.returned]
              /\ pc' = IF res.panicked THEN "aborted" ELSE pc
    /\ UNCHANGED chunk_vars

\* state.device_input(window, event)
DeviceInput ==
    /\ pc = "running"
    /\ \E event \in DeviceEvents, consumed \in BOOLEAN, grab_ok \in BOOLEAN :
          \E res \in {device_input(state, event, consumed, grab_ok)} :
              /\ state' = res.state
              /\ last' = [NoCall EXCEPT !.call = "device_input", !.event = event,
                                        !.key_consumed = res.key_consumed,
                                        !.returned = res.returned,
                                        !.process_mouse = res.process_mouse]
              /\ pc' = IF res.panicked THEN "aborted" ELSE pc
    /\ UNCHANGED chunk_vars

\* state.update(dt): writes the camera, the uniforms and the light
Update ==
    /\ pc = "running"
    /\ last' = [NoCall EXCEPT !.call = "update"]
    /\ UNCHANGED <<pc, state, chunk_vars>>

\* state.render(): returns the error of get_current_frame(), or draws the
\* index range 0..num_index of the index buffer
Render ==
    /\ pc = "running"
    /\ \E frame_ok \in BOOLEAN :
          last' = [NoCall EXCEPT !.call = "render", !.returned = frame_ok,
                                !.draw = IF frame_ok THEN <<0, state.num_index>> ELSE <<>>]
    /\ UNCHANGED <<pc, state, chunk_vars>>

NextState ==
    \/ ChunkNew \/ CreateMesh \/ StateNew
    \/ Resize \/ WindowInput \/ DeviceInput \/ Update \/ Render

SpecState == InitState /\ [][NextState]_vars

(***************************************************************************)
(* Reading a grid and a mesh                                               *)
(***************************************************************************)
\* the six axis directions, as <<axis, sign>>: axis 1 is x, 2 is y, 3 is z
Directions == {<<a, sg>> : a \in 1..3, sg \in {0 - 1, 1}}

\* the coordinates of the cell next to c in direction d (inside the grid or not)
Neighbour(c, d) == [c EXCEPT ![d[1]] = c[d[1]] + d[2]]

IsSolid(c) == blocks[c[1]][c[2]][c[3]].block_type # AIR

SolidCells == {c \in Cells : IsSolid(c)}

\* the neighbour of c in direction d is outside the grid, or Air
Exposed(c, d) == Neighbour(c, d) \notin Cells \/ ~IsSolid(Neighbour(c, d))

\* all six neighbours of the solid cell c are inside the grid and solid
Enclosed(c) == IsSolid(c) /\ \A d \in Directions : ~Exposed(c, d)

\* unordered pairs of face-adjacent solid cells
SolidPairs ==
    Cardinality({p \in SolidCells \X Directions : ~Exposed(p[1], p[2])}) \div 2

SetMin(S) == CHOOSE m \in S : \A n \in S : m <= n
SetMax(S) == CHOOSE m \in S : \A n \in S : n <= m

\* the vertices are appended eight at a time: group g (from 0) is vertices 8g .. 8g+7
NumGroups == Len(vertices) \div 8

\* the coordinates along axis a of the eight vertices of group g
GroupCoords(g, a) == {vertices[8 * g + j].position[a] : j \in 1..8}

\* the centre, along axis a, of the cube that the eight vertices of group g span
GroupCentreAlong(g, a) == (SetMin(GroupCoords(g, a)) + SetMax(GroupCoords(g, a))) \div 2

\* the cell whose cube that is
GroupCell(g) ==
    << GroupCentreAlong(g, 1) \div (2 * HALF_BLOCK_SIZE),
       GroupCentreAlong(g, 2) \div (2 * HALF_BLOCK_SIZE),
       GroupCentreAlong(g, 3) \div (2 * HALF_BLOCK_SIZE) >>

\* the coordinate, along its axis, of the side of group g's cube in direction d
GroupSide(g, d) ==
    IF d[2] = 1 THEN SetMax(GroupCoords(g, d[1])) ELSE SetMin(GroupCoords(g, d[1]))

\* the indices are appended six at a time
NumFaces == Len(indices) \div 6

\* the six indices of the k-th face
FaceIx(k) == [j \in 1..6 |-> indices[6 * (k - 1) + j]]

\* the directions d such that the corners ix refers to all lie on the side
\* of group g's cube in direction d, that side being off the centre
FaceSides(g, ix) ==
    {d \in Directions :
        /\ {vertices[ix[j] + 1].position[d[1]] : j \in 1..6} = {GroupSide(g, d)}
        /\ SetMin(GroupCoords(g, d[1])) < SetMax(GroupCoords(g, d[1]))}

\* the faces that six indices ix draw, each as <<cell, direction>>: the six
\* refer to four corners of one vertex group, all four on the side of that
\* cube in that direction; none when they draw no such face
FacesOf(ix) ==
    IF \/ \E j \in 1..6 : ix[j] \div 8 # ix[1] \div 8
       \/ 8 * (ix[1] \div 8) + 8 > Len(vertices)
       \/ Cardinality({ix[j] : j \in 1..6}) # 4
    THEN {}
    ELSE {GroupCell(ix[1] \div 8)} \X FaceSides(ix[1] \div 8, ix)

\* the faces that the k-th six indices of the mesh draw
EmittedFace(k) == UNION {FacesOf(ix) : ix \in {FaceIx(k)}}

EmittedFaces == [k \in 1..NumFaces |-> EmittedFace(k)]

(***************************************************************************)
(* Claims on create_mesh, under SpecMesh                                   *)
(***************************************************************************)
\* the faces the claim lets the mesh draw: those of a solid cell towards a
\* neighbour that is outside the grid or Air
VisibleFaces == {f \in SolidCells \X Directions : Exposed(f[1], f[2])}

\* C1: in the mesh create_mesh returns, the face of a solid cell in each of
\* the six directions is drawn exactly once when the neighbour in that
\* direction is outside the grid or Air and is not drawn when the neighbour
\* is inside the grid and solid; no face of an Air cell is drawn.  (Every
\* six indices draw one face, the faces drawn are the visible faces and
\* nothing else, and there are as many drawn as there are visible faces, so
\* none is drawn twice.)
C1_FaceVisibility ==
    pc = "meshed" =>
        \A faces \in {EmittedFaces} :
            /\ Len(indices) = 6 * NumFaces
            /\ \A k \in 1..NumFaces : Cardinality(faces[k]) = 1
            /\ UNION {faces[k] : k \in 1..NumFaces} = VisibleFaces
            /\ NumFaces = Cardinality(VisibleFaces)

\* a solid cell with a face on the grid boundary, a face towards an Air
\* cell and a face hidden by a solid cell has been meshed
C1_Witness ==
    /\ pc = "meshed"
    /\ \E c \in SolidCells :
          /\ \E d \in Directions : Neighbour(c, d) \notin Cells
          /\ \E d \in Directions : Neighbour(c, d) \in Cells /\ Exposed(c, d)
          /\ \E d \in Directions : ~Exposed(c, d)

\* C2: every index of the mesh is less than the number of vertices, and
\* there are at most 65536 vertices.
C2_IndexValidity ==
    pc = "meshed" =>
        /\ \A k \in 1..Len(indices) : indices[k] < Len(vertices)
        /\ Len(vertices) <= 8 * NumCells
        /\ Len(vertices) <= U16_MODULUS

\* a mesh of several blocks, the last one not at offset 0
C2_Witness ==
    /\ pc = "meshed"
    /\ Len(vertices) >= 24
    /\ \E k \in 1..Len(indices) : indices[k] >= 16

\* C4: a solid cell whose six neighbours are all inside the grid and solid
\* owns no vertex and no face of the mesh, and the vertex count is 8 for
\* every other solid cell, so an enclosed cell leaves it unchanged.
C4_NoLeak ==
    pc = "meshed" =>
        \A faces \in {EmittedFaces} :
            /\ Len(vertices) = 8 * NumGroups
            /\ \A g \in 0..(NumGroups - 1) : ~Enclosed(GroupCell(g))
            /\ \A k \in 1..NumFaces : \A f \in faces[k] : ~Enclosed(f[1])
            /\ Len(vertices) = 8 * Cardinality({c \in SolidCells : ~Enclosed(c)})

\* a grid with an enclosed cell has been meshed
C4_Witness ==
    /\ pc = "meshed"
    /\ \E c \in Cells : Enclosed(c)
    /\ Len(vertices) > 0

\* C9: the mesh has 6 * F indices where F = 6 * S - 2 * P, S the number of
\* solid cells and P the number of pairs of face-adjacent solid cells; so
\* the index count is a multiple of 6 and of 3, a single solid cell gives 6
\* faces, 36 indices and 8 vertices, two adjacent solid cells give 10 faces.
C9_FaceCount ==
    pc = "meshed" =>
        \A S \in {Cardinality(SolidCells)}, P \in {SolidPairs} :
            /\ Len(indices) = 6 * (6 * S - 2 * P)
            /\ Len(indices) % 6 = 0
            /\ Len(indices) % 3 = 0
            /\ S = 1 => NumFaces = 6 /\ Len(indices) = 36 /\ Len(vertices) = 8
            /\ (S = 2 /\ P = 1) => NumFaces = 10

\* two adjacent solid cells, alone in the grid, have been meshed
C9_Witness ==
    /\ pc = "meshed"
    /\ Cardinality(SolidCells) = 2
    /\ SolidPairs = 1
    /\ NumFaces = 10

\* the eight corners of the cube of cell c
Corners(c) ==
    {<<c[1] * 2 * HALF_BLOCK_SIZE + sx * HALF_BLOCK_SIZE,
       c[2] * 2 * HALF_BLOCK_SIZE + sy * HALF_BLOCK_SIZE,
       c[3] * 2 * HALF_BLOCK_SIZE + sz * HALF_BLOCK_SIZE>> :
        sx \in {0 - 1, 1}, sy \in {0 - 1, 1}, sz \in {0 - 1, 1}}

\* the number of faces of cell c towards a neighbour that is outside the grid or Air
NumExposed(c) == Cardinality({d \in Directions : Exposed(c, d)})

\* the block of cell c, processed when nv vertices and ni indices had been
\* appended, appended the 8 corners of its cube as vertices nv .. nv + 7 and
\* nf * 6 indices, each of them nv plus a corner number in 0..7
BlockLayout(c, nv, ni, nf) ==
    /\ nv + 8 <= Len(vertices)
    /\ ni + 6 * nf <= Len(indices)
    /\ {vertices[nv + j].position : j \in 1..8} = Corners(c)
    /\ \A j \in 1..(6 * nf) : indices[ni + j] - nv \in 0..7

RECURSIVE LayoutFrom(_, _, _)
\* BlockLayout for every solid cell that shows a face, from the k-th cell of
\* the traversal on, nv vertices and ni indices having been appended before
\* it; the cells that show no face, and the Air cells, append nothing
LayoutFrom(k, nv, ni) ==
    IF k = NumCells THEN nv = Len(vertices) /\ ni = Len(indices)
    ELSE IF IsSolid(LoopCell(k)) /\ NumExposed(LoopCell(k)) > 0
         THEN /\ BlockLayout(LoopCell(k), nv, ni, NumExposed(LoopCell(k)))
              /\ LayoutFrom(k + 1, nv + 8, ni + 6 * NumExposed(LoopCell(k)))
         ELSE LayoutFrom(k + 1, nv, ni)

\* C13: every solid cell with a visible face appends exactly 8 vertices, the
\* corners of its cube, and every index it emits is a corner number in 0..7
\* plus the number of vertices appended before the cell was processed, so it
\* refers to one of the cell's own 8 vertices.
C13_BlockLayout ==
    pc = "meshed" => LayoutFrom(0, 0, 0)

\* several blocks have been meshed, with a cell in between that appended nothing
C13_Witness ==
    /\ pc = "meshed"
    /\ Len(vertices) >= 24
    /\ \E k \in 1..Len(indices) : indices[k] \in 16..23
    /\ \E c \in Cells : Enclosed(c)

\* cell a comes before cell b in the lexicographic order of (y, x, z)
Before(a, b) ==
    \/ a[2] < b[2]
    \/ a[2] = b[2] /\ a[1] < b[1]
    \/ a[2] = b[2] /\ a[1] = b[1] /\ a[3] < b[3]

\* C14: the cells whose cubes the vertex groups span come in strictly
\* increasing (y, x, z) order, y outermost and z innermost, and the indices
\* come in the order of the vertex groups they refer to; so the vertices and
\* the indices of a cell earlier in that order come earlier in the sequences.
C14_TraversalOrder ==
    pc = "meshed" =>
        /\ Len(vertices) = 8 * NumGroups
        /\ \A g \in 1..(NumGroups - 1) : Before(GroupCell(g - 1), GroupCell(g))
        /\ \A k \in 1..(Len(indices) - 1) : indices[k] \div 8 <= indices[k + 1] \div 8
        /\ \A g \in 0..(NumGroups - 1) : \E k \in 1..Len(indices) : indices[k] \div 8 = g

\* a mesh in which a block is followed by a block of smaller x and by a block of smaller z
C14_Witness ==
    /\ pc = "meshed"
    /\ \E g \in 1..(NumGroups - 1) : GroupCell(g - 1)[1] > GroupCell(g)[1]
    /\ \E g \in 1..(NumGroups - 1) : GroupCell(g - 1)[3] > GroupCell(g)[3]

(***************************************************************************)
(* Claims on create_cube, under SpecCube                                   *)
(***************************************************************************)
\* front_face of the pipeline that draws the terrain (State::create_render_pipeline)
FRONT_FACE == "Cw"

\* the cell of the call
CubeCell == <<cube_in.x, cube_in.y, cube_in.z>>

\* the position of the vertex that the j-th returned index refers to
CubePos(j) == cube_out.v_cube[cube_out.i_cube[j] - cube_in.idx_offset + 1].position

Cross(u, v) ==
    <<u[2] * v[3] - u[3] * v[2], u[3] * v[1] - u[1] * v[3], u[1] * v[2] - u[2] * v[1]>>

Minus(u, v) == <<u[1] - v[1], u[2] - v[2], u[3] - v[3]>>

\* the winding of the triangle a, b, c for a viewer on the side of direction
\* d, in right-handed coordinates: counter-clockwise when (b - a) x (c - a)
\* points to the viewer, clockwise when it points away
Winding(a, b, c, d) ==
    IF Cross(Minus(b, a), Minus(c, a))[d[1]] * d[2] < 0 THEN "Cw"
    ELSE IF Cross(Minus(b, a), Minus(c, a))[d[1]] * d[2] > 0 THEN "Ccw"
    ELSE "None"

\* the corner p of the cell's cube is on the boundary plane of the cube in
\* direction d: centre + half-extent along the axis of d, centre +/-
\* half-extent along the two other axes
OnSide(p, d) ==
    /\ p \in Corners(CubeCell)
    /\ p[d[1]] = CubeCell[d[1]] * 2 * HALF_BLOCK_SIZE + d[2] * HALF_BLOCK_SIZE

\* the six indices from the (6r+1)-th on draw the face in direction d: four
\* distinct corners, all on the side d, as two triangles that share a
\* diagonal of the quad, both wound as the pipeline's front face
DrawsFace(r, d) ==
    /\ \A j \in 1..6 : OnSide(CubePos(6 * r + j), d)
    /\ Cardinality({CubePos(6 * r + j) : j \in 1..6}) = 4
    /\ Cardinality({CubePos(6 * r + j) : j \in 1..3}) = 3
    /\ Cardinality({CubePos(6 * r + j) : j \in 4..6}) = 3
    /\ \A S \in {{CubePos(6 * r + j) : j \in 1..3} \cap {CubePos(6 * r + j) : j \in 4..6}} :
          /\ Cardinality(S) = 2
          /\ \A p \in S, q \in S : p # q =>
                Cardinality({a \in 1..3 : p[a] # q[a]}) = 2
    /\ Winding(CubePos(6 * r + 1), CubePos(6 * r + 2), CubePos(6 * r + 3), d) = FRONT_FACE
    /\ Winding(CubePos(6 * r + 4), CubePos(6 * r + 5), CubePos(6 * r + 6), d) = FRONT_FACE

\* C15: of a block whose vertices fit below the u16 ceiling, each six
\* returned indices draw the face of one direction (4 distinct corners on
\* the boundary plane of the cube in that direction, two triangles that
\* cover the quad, both clockwise seen from outside, the front face of the
\* terrain pipeline), and the directions drawn are those the cell shows,
\* each once.
C15_FaceWinding ==
    (pc = "cube_done" /\ cube_in.idx_offset + 8 <= U16_MODULUS) =>
        /\ ~cube_out.panicked
        /\ FRONT_FACE = "Cw"
        /\ Len(cube_out.i_cube) = 6 * NumExposed(CubeCell)
        /\ \A r \in 0..(NumExposed(CubeCell) - 1) :
              Cardinality({d \in Directions : DrawsFace(r, d)}) = 1
        /\ \A d \in Directions :
              Exposed(CubeCell, d) <=>
                  \E r \in 0..(NumExposed(CubeCell) - 1) : DrawsFace(r, d)

\* a block that shows all six faces, and is not the first of its mesh, has been built
C15_Witness ==
    /\ pc = "cube_done"
    /\ cube_in.idx_offset > 0
    /\ cube_in.idx_offset + 8 <= U16_MODULUS
    /\ Len(cube_out.i_cube) = 36
    /\ Len(cube_out.v_cube) = 8

(***************************************************************************)
(* Claims on Chunk::new, under Spec                                        *)
(***************************************************************************)
Generated == pc \in {"generated", "meshed"}

\* C5: the sampler that from_seed(1337) returns carries the seed 1337, and
\* what it samples is the noise function of that seed.
C5_SamplerCarriesSeed ==
    Generated =>
        /\ noise_gen = from_seed_Seeded(CHUNK_SEED)
        /\ \A c \in Columns : NoiseGenerator_get(noise_gen, c[1], c[2]) = noise[CHUNK_SEED][c]

\* the numerator, over NoiseDen, of the height signal of column <<x, z>>:
\* the sampled noise value times CHUNK_HEIGHT
HeightSignalNum(c) == noise[noise_gen.generator.seed][c] * CHUNK_HEIGHT

\* C7: in the generated grid the cell at height y of a column is Air iff
\* y > height_signal and Solid otherwise; a column whose height signal is
\* CHUNK_HEIGHT or more is Solid throughout, one whose height signal is
\* negative is Air throughout.
C7_Thresholding ==
    Generated =>
        \A c \in Columns :
            /\ \A y \in YRange :
                  /\ blocks[c[1]][y][c[2]].block_type \in {AIR, STONE}
                  /\ blocks[c[1]][y][c[2]].block_type = AIR
                        <=> y * NoiseDen > HeightSignalNum(c)
            /\ HeightSignalNum(c) >= CHUNK_HEIGHT * NoiseDen =>
                  \A y \in YRange : blocks[c[1]][y][c[2]].block_type = STONE
            /\ HeightSignalNum(c) < 0 =>
                  \A y \in YRange : blocks[c[1]][y][c[2]].block_type = AIR

\* a grid has been generated with a column at or above CHUNK_HEIGHT and a
\* column whose height signal is exactly the height of one of its cells
C7_Witness ==
    /\ Generated
    /\ \E c \in Columns : HeightSignalNum(c) >= CHUNK_HEIGHT * NoiseDen
    /\ \E c \in Columns, y \in YRange : y * NoiseDen = HeightSignalNum(c)

\* C8: in every column of the generated grid the cells below a Solid cell
\* are Solid.
C8_HeightmapShape ==
    Generated =>
        \A c \in Columns : \A y \in YRange :
            blocks[c[1]][y][c[2]].block_type # AIR =>
                \A yb \in 0..(y - 1) : blocks[c[1]][yb][c[2]].block_type # AIR

\* a grid has been generated with a column that is Solid below and Air above
C8_Witness ==
    /\ Generated
    /\ \E c \in Columns :
          /\ blocks[c[1]][1][c[2]].block_type # AIR
          /\ blocks[c[1]][CHUNK_HEIGHT - 1][c[2]].block_type = AIR

(***************************************************************************)
(* Claims on repeated builds and on is_active, under SpecBuilds            *)
(***************************************************************************)
\* C11: the mesh of a grid is the mesh of the grid with the same block types
\* and every is_active flag cleared, so two grids that agree on every
\* block_type, whatever their is_active flags, have the same vertex and
\* index sequences.
C11_ActiveIgnored ==
    pc = "meshed" =>
        \A mesh \in {create_mesh(WithActive(blocks, {}))} :
            /\ ~mesh.panicked
            /\ vertices = mesh.vertices
            /\ indices = mesh.indices

\* a grid with a flagged solid cell next to an unflagged solid cell has been meshed
C11_Witness ==
    /\ pc = "meshed"
    /\ Len(indices) > 0
    /\ \E c \in SolidCells : \E d \in Directions :
          /\ blocks[c[1]][c[2]][c[3]].is_active
          /\ ~Exposed(c, d)
          /\ ~blocks[Neighbour(c, d)[1]][Neighbour(c, d)[2]][Neighbour(c, d)[3]].is_active

\* C12: a step taken once the grid is generated, a first or a repeated
\* create_mesh, leaves every cell's block_type and is_active and the chunk's
\* width and height as they were.
C12_GridNotMutated ==
    [][Generated => /\ blocks' = blocks
                    /\ width' = width
                    /\ height' = height
                    /\ width' = CHUNK_WIDTH
                    /\ height' = CHUNK_HEIGHT]_vars

\* the chunk has been meshed a second time, some of its flags set and some not
C12_Witness ==
    /\ pc = "meshed"
    /\ calls.mesh = 2
    /\ Len(vertices) > 0
    /\ \E c \in SolidCells : ~blocks[c[1]][c[2]][c[3]].is_active

(***************************************************************************)
(* Claims on State, under SpecState                                        *)
(***************************************************************************)
\* State::new has returned
Running == pc \in {"running", "aborted"}

\* C16: Chunk::new and create_mesh are each called once, inside State::new,
\* before any method of State and so before the first render; after any
\* sequence of resize, window_input, device_input, update and render the
\* counts are still one, the buffers hold the mesh built at startup,
\* num_index is the length of its index sequence, and a draw covers the
\* index range 0..num_index, the whole index buffer.
C16_GeneratedOnce ==
    /\ last.call # "none" => Running
    /\ pc = "start" => calls = [new |-> 0, mesh |-> 0]
    /\ pc = "generated" => calls = [new |-> 1, mesh |-> 0]
    /\ pc = "meshed" => calls = [new |-> 1, mesh |-> 1]
    /\ Running =>
          /\ calls = [new |-> 1, mesh |-> 1]
          /\ state.vertex_buffer = vertices
          /\ state.index_buffer = indices
          /\ state.num_index = Len(indices)
          /\ (last.call = "render" /\ last.returned) =>
                last.draw = <<0, Len(state.index_buffer)>>

\* a frame of a mesh that is not empty has been drawn after the mouse was captured
C16_Witness ==
    /\ pc = "running"
    /\ last.call = "render"
    /\ last.returned
    /\ state.mouse_capture
    /\ state.num_index > 0
    /\ Len(vertices) # Len(indices)

(***************************************************************************)
(* Claims on the mouse capture of State, under SpecState                   *)
(***************************************************************************)
\* one step of the event loop: a State method has run on a State that exists
EventStep == pc = "running" /\ pc' \in {"running", "aborted"}

\* C20: mouse_capture is false when State::new returns; a mouse motion is
\* given to process_mouse only when mouse_capture is true; mouse_capture
\* turns true only in window_input, on a left mouse button event received
\* while it is false, and that is the only case in which window_input
\* returns true; it turns false only in device_input, on an Escape key the
\* camera controller did not consume, received while it is true.
C20_MouseCapture ==
    [][ /\ (pc = "meshed" /\ pc' = "running") => ~state'.mouse_capture
        /\ EventStep =>
              /\ last'.process_mouse =>
                    /\ state.mouse_capture
                    /\ last'.call = "device_input"
                    /\ last'.event.type = "MouseMotion"
              /\ (~state.mouse_capture /\ state'.mouse_capture) =>
                    /\ last'.call = "window_input"
                    /\ last'.event.type = "MouseInput"
                    /\ last'.event.button = "Left"
                    /\ last'.returned
              /\ (last'.call = "window_input" /\ last'.returned) =>
                    /\ last'.event.type = "MouseInput"
                    /\ last'.event.button = "Left"
                    /\ ~state.mouse_capture
                    /\ state'.mouse_capture
              /\ (state.mouse_capture /\ ~state'.mouse_capture) =>
                    /\ last'.call = "device_input"
                    /\ last'.event.type = "Key"
                    /\ last'.event.key = "Escape"
                    /\ ~last'.key_consumed
      ]_vars

\* the mouse was captured and an Escape key has just released it
C20_Witness ==
    /\ pc = "running"
    /\ last.call = "device_input"
    /\ last.event.key = "Escape"
    /\ last.returned
    /\ ~state.mouse_capture

(***************************************************************************)
(* Claims on the u16 indices at the extents of the source                  *)
(***************************************************************************)
\* the offsets create_mesh passed to create_cube, read from the colour of
\* the first vertex of every block of its mesh
PassedOffsets(mesh) ==
    {mesh.vertices[8 * g + 1].color[1] : g \in 0..(Len(mesh.vertices) \div 8 - 1)}

\* C17: a chunk of the source has at most 65536 / 8 cells, so the offset
\* of its last cell is at most 65528; create_mesh passes no offset beyond
\* that of the last cell; and for an offset up to 65528 the cast to u16
\* keeps the offset, every sum BASE_INDICES[face][i] + offset is at most
\* 65535, and create_cube does not overflow.
C17_NoWrapAtSourceExtents ==
    /\ 8 * SourceNumCells <= U16_MODULUS
    /\ 8 * (SourceNumCells - 1) = 65528
    /\ pc = "cube_done" =>
          /\ \A mesh \in {create_mesh(blocks)} :
                /\ ~mesh.panicked
                /\ \A off \in PassedOffsets(mesh) : off <= 8 * (NumCells - 1)
          /\ cube_in.idx_offset <= 8 * (SourceNumCells - 1) =>
                /\ ~cube_out.panicked
                /\ AsU16(cube_in.idx_offset) = cube_in.idx_offset
                /\ \A face \in 0..5 :
                      /\ ~FaceOverflows(face, cube_in.idx_offset)
                      /\ \A i \in 1..6 :
                            /\ BASE_INDICES[face + 1][i] + cube_in.idx_offset <= 65535
                            /\ add_face_indices(face, cube_in.idx_offset)[i]
                                  = BASE_INDICES[face + 1][i] + cube_in.idx_offset
                /\ \A k \in 1..Len(cube_out.i_cube) :
                      /\ cube_out.i_cube[k] >= cube_in.idx_offset
                      /\ cube_out.i_cube[k] <= 65535

\* a block at the last offset of a chunk of the source, with the index 65535
C17_Witness ==
    /\ pc = "cube_done"
    /\ cube_in.idx_offset = 65528
    /\ ~cube_out.panicked
    /\ \E k \in 1..Len(cube_out.i_cube) : cube_out.i_cube[k] = 65535

(***************************************************************************)
(* Claims on the grid accesses of Chunk::new and create_mesh, under Spec   *)
(***************************************************************************)
\* the index <<i, j, k>> is inside [[[Block; CHUNK_WIDTH]; CHUNK_HEIGHT]; CHUNK_WIDTH]
InBounds(c) ==
    /\ 0 <= c[1] /\ c[1] < CHUNK_WIDTH
    /\ 0 <= c[2] /\ c[2] < CHUNK_HEIGHT
    /\ 0 <= c[3] /\ c[3] < CHUNK_WIDTH

\* C18: every cell Chunk::new writes and every cell create_mesh reads is
\* inside the grid, and so is every neighbour create_cube reads for a solid
\* cell: no coordinate below 0 (x - 1, y - 1, z - 1 are computed only for a
\* coordinate above 0) and none past its maximum.
C18_AccessesInBounds ==
    /\ pc \in {"generated", "meshed", "panicked"} =>
          \A c \in NewWrites : InBounds(c)
    /\ pc = "meshed" =>
          \A c \in MeshReads :
              /\ InBounds(c)
              /\ blocks[c[1]][c[2]][c[3]].block_type # AIR =>
                    \A r \in CubeReads(c[1], c[2], c[3]) :
                        /\ InBounds(r)
                        /\ r[1] >= c[1] - 1 /\ r[2] >= c[2] - 1 /\ r[3] >= c[3] - 1

\* the mesh of a grid with a solid cell inside it, read on all six sides,
\* and a solid cell at a corner, read on three
C18_Witness ==
    /\ pc = "meshed"
    /\ \E c \in MeshReads :
          /\ blocks[c[1]][c[2]][c[3]].block_type # AIR
          /\ Cardinality(CubeReads(c[1], c[2], c[3])) = 6
    /\ \E c \in MeshReads :
          /\ blocks[c[1]][c[2]][c[3]].block_type # AIR
          /\ Cardinality(CubeReads(c[1], c[2], c[3])) = 3

(***************************************************************************)
(* Claims on Chunk::new and create_mesh composed, under Spec               *)
(***************************************************************************)
\* the heights of the solid cells of the column (x, z)
ColumnSolid(x, z) == {y \in YRange : IsSolid(<<x, y, z>>)}

\* the faces of the mesh `faces` that belong to a cell of the column (x, z)
\* and look in direction d, each as <<its place in the mesh, the height of its cell>>
ColumnFaces(faces, x, z, d) ==
    {p \in (1..NumFaces) \X YRange : <<<<x, p[2], z>>, d>> \in faces[p[1]]}

\* C19: in the mesh of the grid Chunk::new builds, a column with a solid
\* cell has exactly one Top face, on its highest solid cell, and exactly
\* one Bottom face, on its cell at y = 0; a column without a solid cell has
\* no face in any direction.
C19_ColumnTopAndBottom ==
    pc = "meshed" =>
        \A faces \in {EmittedFaces} :
            \A col \in Columns :
                \A S \in {ColumnSolid(col[1], col[2])} :
                    IF S # {}
                    THEN /\ \A T \in {ColumnFaces(faces, col[1], col[2], <<2, 1>>)} :
                               Cardinality(T) = 1 /\ \A p \in T : p[2] = SetMax(S)
                         /\ \A B \in {ColumnFaces(faces, col[1], col[2], <<2, 0 - 1>>)} :
                               Cardinality(B) = 1 /\ \A p \in B : p[2] = 0
                    ELSE \A d \in Directions : ColumnFaces(faces, col[1], col[2], d) = {}

\* the mesh of a terrain with an empty column and a column of several
\* solid cells that ends below the top of the chunk
C19_Witness ==
    /\ pc = "meshed"
    /\ \E col \in Columns : ColumnSolid(col[1], col[2]) = {}
    /\ \E col \in Columns :
          /\ ColumnSolid(col[1], col[2]) # {}
          /\ SetMax(ColumnSolid(col[1], col[2])) < CHUNK_HEIGHT - 1
          /\ SetMax(ColumnSolid(col[1], col[2])) > 0

====
